---------------------------- MODULE Spec2Model ----------------------------
(***************************************************************************)
(* Hand-eye calibration session of tasks/calibrate.py (class Calibration). *)
(*                                                                         *)
(* Numbers.  The program computes in floating point; the model computes    *)
(* exactly, in integers.  Lengths of the workspace are integers in         *)
(* millimetres.  np.linspace yields rationals with denominator num-1, so   *)
(* grid coordinates are held in units of 1/D mm, D = GridDen (the product  *)
(* of the per-axis num-1).  Back-projection divides by the focal lengths,  *)
(* so camera-space coordinates carry the further factor F = fx*fy.  The    *)
(* three correspondence lists hold lengths in units of 1/(D*F); the        *)
(* translation returned by the estimator is a mean over N points and is    *)
(* held multiplied by N.  Raw depth readings and pixels are plain integers.*)
(*                                                                         *)
(* np.linalg.svd is a library routine: its factors U, Vt are inputs of the *)
(* estimator here, drawn from the orthogonal integer matrices (the signed  *)
(* permutation matrices), every one of determinant +1 or -1.               *)
(* scipy.optimize.minimize is a library routine as well: it is a loop of   *)
(* objective evaluations followed by a result (x, success).                *)
(***************************************************************************)
EXTENDS Integers, Sequences, FiniteSets, TLC

VARIABLES
    pc,                 \* position of run()
    workspace_limits,   \* self.workspace_limits: <<lo,hi>> per axis x, y, z
    calib_grid_step,    \* self.calib_grid_step
    intrinsics,         \* self.camera.intrinsics (3x3)
    cameraConnected,    \* camera.connect() has returned
    robotConnected,     \* robot.connect() has returned
    log,                \* the calls made on the robot and the camera, in order
    calib_grid_pts,     \* result of _generate_grid
    gridCalls,          \* number of _generate_grid calls made
    idx,                \* index of the grid point the loop is at
    outcomes,           \* what the camera and detector gave at each visited point
    measured_pts,       \* self.measured_pts
    observed_pts,       \* self.observed_pts
    observed_pix,       \* self.observed_pix
    world2camera,       \* the local world2camera of run() (<<>>: unbound)
    nEvals,             \* completed calls of _get_rigid_transform_error
    evaluated,          \* z_scale values the running minimizer has evaluated
    lastCall,           \* the objective call last made, if its frame is the
                        \* latest: <<[z_scale, world2camera, err]>>, or <<>>
    optim_result,       \* <<result of optimize.minimize>>, or <<>>
    camera_depth_offset,\* optim_result.x, an array of one element
    saved,              \* files written by np.savetxt, in order
    abortReason,        \* the exception that ended run(), if any
    rt                  \* inputs and result of a stand-alone estimator call

vars == <<pc, workspace_limits, calib_grid_step, intrinsics, cameraConnected,
          robotConnected, log, calib_grid_pts, gridCalls, idx, outcomes,
          measured_pts, observed_pts, observed_pix, world2camera, nEvals,
          evaluated, lastCall, optim_result, camera_depth_offset,
          saved, abortReason, rt>>

None == "None"

-----------------------------------------------------------------------------
(* Bounds of the model *)

\* workspace spans are 0, 25, ..., 25*MaxSpanK mm
MaxSpanK == 3

\* grid steps are 25, ..., 25*MaxStepK mm
MaxStepK == 2

\* calls of _generate_grid on one configuration
MaxGridCalls == 2

\* raw depth readings are 0..MaxDepth
MaxDepth == 1

\* the detector's pixels are <<0, 1>> and <<MaxPix + 1, MaxPix>>
MaxPix == 1

\* objective evaluations the minimizer makes after the first
MaxEvals == 1

\* trial depth scales are 1..MaxZ
MaxZ == 2

\* coordinates of stand-alone estimator inputs are 0..MaxCoord
MaxCoord == 1


-----------------------------------------------------------------------------
(* Vectors and 3x3 matrices (tuples of rows) *)

Max(a, b) == IF a >= b THEN a ELSE b

VecAdd(u, v) == <<u[1] + v[1], u[2] + v[2], u[3] + v[3]>>

VecScale(v, k) == <<v[1] * k, v[2] * k, v[3] * k>>

Transpose(M) == [i \in 1..3 |-> [j \in 1..3 |-> M[j][i]]]

MatMul(M, P) ==
    [i \in 1..3 |-> [j \in 1..3 |->
        M[i][1] * P[1][j] + M[i][2] * P[2][j] + M[i][3] * P[3][j]]]

MatVec(M, v) ==
    [i \in 1..3 |-> M[i][1] * v[1] + M[i][2] * v[2] + M[i][3] * v[3]]

MatNeg(M) == [i \in 1..3 |-> [j \in 1..3 |-> 0 - M[i][j]]]

Det3(M) ==
      M[1][1] * (M[2][2] * M[3][3] - M[2][3] * M[3][2])
    - M[1][2] * (M[2][1] * M[3][3] - M[2][3] * M[3][1])
    + M[1][3] * (M[2][1] * M[3][2] - M[2][2] * M[3][1])

\* Cofactor of entry (i, j), with cyclic indices.
Cof(M, i, j) ==
    LET n(a) == (a % 3) + 1
    IN  M[n(i)][n(j)] * M[n(n(i))][n(n(j))] - M[n(i)][n(n(j))] * M[n(n(i))][n(j)]

\* Inverse of a matrix of determinant +1 or -1: adjugate / det.
Inv3(M) == [i \in 1..3 |-> [j \in 1..3 |-> Cof(M, j, i) * Det3(M)]]

I3 == <<<<1, 0, 0>>, <<0, 1, 0>>, <<0, 0, 1>>>>

RECURSIVE SumVecs(_)
SumVecs(s) == IF s = <<>> THEN <<0, 0, 0>> ELSE VecAdd(Head(s), SumVecs(Tail(s)))

\* The orthogonal 3x3 integer matrices.
Orth ==
    LET Perms3 == {p \in [1..3 -> 1..3] : \A a, b \in 1..3 : p[a] = p[b] => a = b}
        Signs == [1..3 -> {-1, 1}]
    IN  {[i \in 1..3 |-> [j \in 1..3 |-> IF p[i] = j THEN s[i] ELSE 0]] :
            p \in Perms3, s \in Signs}

\* The factors the session's estimator calls draw from: the identity, a
\* reflection (x and y swapped) and a rotation (the axes cycled).
OrthSample ==
    { I3,
      <<<<0, 1, 0>>, <<1, 0, 0>>, <<0, 0, 1>>>>,
      <<<<0, 1, 0>>, <<0, 0, 1>>, <<1, 0, 0>>>> }

-----------------------------------------------------------------------------
(* Homogeneous 4x4 transforms [R t; 0 0 0 1], held as [R, t] *)

Eye4 == [R |-> I3, t |-> <<0, 0, 0>>]

\* np.concatenate((np.concatenate((R, t), axis=1), [[0, 0, 0, 1]]), axis=0)
Homogeneous(R, t) == [R |-> R, t |-> t]

\* np.linalg.inv of [R t; 0 1] is [R^-1  -R^-1 t; 0 1].
Inv4(W) == [R |-> Inv3(W.R), t |-> MatVec(MatNeg(Inv3(W.R)), W.t)]

-----------------------------------------------------------------------------
(* _get_rigid_transform *)

\* R is left as the candidate when it is a reflection.
GetRigidTransformNoFix(A, B, U, Vt) ==
    LET R == MatMul(Transpose(Vt), Transpose(U))
    IN  [R |-> R,
         t |-> VecAdd(MatVec(MatNeg(R), SumVecs(A)), SumVecs(B))]

\* A, B: sequences of points of equal length N; U, Vt: the factors of the SVD
\* of the cross-covariance.  Returns R and N*t.
GetRigidTransform(A, B, U, Vt) ==
    LET R0 == MatMul(Transpose(Vt), Transpose(U))
        Vt2 == IF Det3(R0) < 0
               THEN <<Vt[1], Vt[2], VecScale(Vt[3], -1)>>
               ELSE Vt
        R == IF Det3(R0) < 0 THEN MatMul(Transpose(Vt2), Transpose(U)) ELSE R0
    IN  [R |-> R,
         t |-> VecAdd(MatVec(MatNeg(R), SumVecs(A)), SumVecs(B))]

-----------------------------------------------------------------------------
(* _generate_grid *)

\* Number of points np.linspace is asked for: 1 + (hi - lo) / step, which
\* linspace truncates to an integer.
NumPtsNoEndpoint(lo, hi, step) == (hi - lo) \div step

NumPts(lo, hi, step) == 1 + ((hi - lo) \div step)

AxisNum(limits, step) ==
    [a \in 1..3 |-> NumPts(limits[a][1], limits[a][2], step)]

\* Common denominator D of the grid's coordinates.
GridDen(limits, step) ==
    LET n == AxisNum(limits, step)
    IN  Max(n[1] - 1, 1) * Max(n[2] - 1, 1) * Max(n[3] - 1, 1)

\* np.linspace(lo, hi, num, endpoint=False), in units of 1/den.
LinspaceOpen(lo, hi, num, den) ==
    [i \in 1..num |-> lo * den + ((i - 1) * (hi - lo) * den) \div num]

\* np.linspace(lo, hi, num), in units of 1/den (num - 1 divides den).
Linspace(lo, hi, num, den) ==
    [i \in 1..num |->
        IF num = 1 THEN lo * den
        ELSE lo * den + ((i - 1) * (hi - lo) * den) \div (num - 1)]

\* np.meshgrid (indexing 'xy': shape (ny, nx, nz)), flattened in C order and
\* concatenated column-wise.
GenerateGrid(limits, step) ==
    LET n == AxisNum(limits, step)
        D == GridDen(limits, step)
        gx == Linspace(limits[1][1], limits[1][2], n[1], D)
        gy == Linspace(limits[2][1], limits[2][2], n[2], D)
        gz == Linspace(limits[3][1], limits[3][2], n[3], D)
    IN  [f \in 1..(n[1] * n[2] * n[3]) |->
            LET g == f - 1
                j == g \div (n[1] * n[3])
                i == (g % (n[1] * n[3])) \div n[3]
                k == g % n[3]
            IN  <<gx[i + 1], gy[j + 1], gz[k + 1]>>]

-----------------------------------------------------------------------------
(* Configuration of the session *)

\* calib_grid_step = 0.05 m
CalibGridStep == 50

\* checkerboard_offset_from_tool = [0, -0.13, 0.02] m
checkerboard_offset_from_tool == <<0, -130, 20>>

\* z_scale_init = 1
ZScaleInit == 1

\* Workspaces of the session runs: grids of 1, 2 (along x, span not a multiple
\* of the step), 2 (along y) and 3 points.
RunLimits ==
    { <<<<300, 300 + s[1]>>, <<50, 50 + s[2]>>, <<-200, -200>>>> :
        s \in {<<0, 0>>, <<75, 0>>, <<0, 50>>, <<100, 0>>} }

\* Camera intrinsics of the session runs: fx = fy = 2, cx = cy = 1.
IntrinsicsSet == { <<<<2, 0, 1>>, <<0, 2, 1>>, <<0, 0, 1>>>> }

\* F = fx * fy
FocalDen(K) == K[1][1] * K[2][2]

\* Pixels the detector may report for the checkerboard centre.
PixSet == { <<0, 1>>, <<MaxPix + 1, MaxPix>> }

\* What one frame yields: checkerboard_found, the rounded centre pixel and
\* the depth image's value at that pixel.
Outcomes ==
    { [found |-> FALSE, pix |-> <<0, 0>>, z |-> 0] } \cup
    { [found |-> TRUE, pix |-> <<0, 1>>, z |-> 0] } \cup
    { [found |-> TRUE, pix |-> p, z |-> d] : p \in PixSet, d \in 1..MaxDepth }

ZScales == 1..MaxZ

-----------------------------------------------------------------------------
(* The body of the collecting loop, after the frame is taken *)

\* Pinhole back-projection of pixel pix at depth zU (zU a multiple of fx*fy).
BackProject(pix, zU, K) ==
    << (pix[1] - K[1][3]) * (zU \div K[1][1]),
       (pix[2] - K[2][3]) * (zU \div K[2][2]),
       zU >>

\* The sample is appended whatever its depth.
CollectSampleNoZeroCheck(L, tool_position, o, K, D) ==
    IF o.found
    THEN [ x |-> Append(L.x, BackProject(o.pix, o.z * D * FocalDen(K), K)),
           m |-> Append(L.m, VecAdd(VecScale(tool_position, FocalDen(K)),
                                    VecScale(checkerboard_offset_from_tool,
                                             D * FocalDen(K)))),
           p |-> Append(L.p, o.pix) ]
    ELSE L

\* L = [m, x, p]: measured_pts, observed_pts, observed_pix before the step;
\* the result is the three lists after it.
CollectSample(L, tool_position, o, K, D) ==
    IF o.found
    THEN IF o.z = 0
         THEN L
         ELSE [ x |-> Append(L.x, BackProject(o.pix, o.z * D * FocalDen(K), K)),
                m |-> Append(L.m, VecAdd(VecScale(tool_position, FocalDen(K)),
                                         VecScale(checkerboard_offset_from_tool,
                                                  D * FocalDen(K)))),
                p |-> Append(L.p, o.pix) ]
    ELSE L

-----------------------------------------------------------------------------
(* _get_rigid_transform_error *)

\* new_observed_pts: depth scaled by z_scale, x and y back-projected again.
NewObservedPts(obs_pts, obs_pix, z_scale, K) ==
    [i \in 1..Len(obs_pts) |->
        BackProject(obs_pix[i], obs_pts[i][3] * z_scale, K)]

\* Sum over the points of |N * (R m_i + t - b_i)|^2: N^2 times the sum of
\* squared errors, of which rmse is the root of the mean.
RECURSIVE SumSqErr(_, _, _, _)
SumSqErr(T, A, B, N) ==
    IF A = <<>> THEN 0
    ELSE LET e == VecAdd(VecAdd(VecScale(MatVec(T.R, Head(A)), N), T.t),
                         VecScale(Head(B), 0 - N))
         IN  e[1] * e[1] + e[2] * e[2] + e[3] * e[3]
             + SumSqErr(T, Tail(A), Tail(B), N)

\* The objective at z_scale, with U, Vt the factors the SVD gives: the local
\* world2camera it builds and the squared error it returns the root of.
RigidTransformError(meas, obs_pts, obs_pix, z_scale, K, U, Vt) ==
    LET new_observed_pts == NewObservedPts(obs_pts, obs_pix, z_scale, K)
        T == GetRigidTransform(meas, new_observed_pts, U, Vt)
    IN  [ world2camera |-> Homogeneous(T.R, T.t),
          err |-> SumSqErr(T, meas, new_observed_pts, Len(meas)) ]

-----------------------------------------------------------------------------
(* Calibration.run *)

Lists == [m |-> measured_pts, x |-> observed_pts, p |-> observed_pix]

Call(op, i) == [op |-> op, i |-> i]

\* What connect() can do: return, or raise.
ConnectResults == {"ok", "raise"}

sessionVars == <<workspace_limits, calib_grid_step, intrinsics, rt>>

collectVars == <<measured_pts, observed_pts, observed_pix>>

optimVars == <<world2camera, nEvals, evaluated, lastCall, optim_result,
               camera_depth_offset, saved>>

gridVars == <<calib_grid_pts, gridCalls, idx, outcomes>>

InitCommon ==
    /\ cameraConnected = FALSE
    /\ robotConnected = FALSE
    /\ log = <<>>
    /\ calib_grid_pts = <<>>
    /\ gridCalls = 0
    /\ idx = 0
    /\ outcomes = <<>>
    /\ measured_pts = <<>>
    /\ observed_pts = <<>>
    /\ observed_pix = <<>>
    /\ world2camera = <<>>
    /\ nEvals = 0
    /\ evaluated = {}
    /\ lastCall = <<>>
    /\ optim_result = <<>>
    /\ camera_depth_offset = <<>>
    /\ saved = <<>>
    /\ abortReason = None

Init ==
    /\ pc = "camera_connect"
    /\ workspace_limits \in RunLimits
    /\ calib_grid_step = CalibGridStep
    /\ intrinsics \in IntrinsicsSet
    /\ rt = None
    /\ InitCommon

\* self.camera.connect()
CameraConnect ==
    /\ pc = "camera_connect"
    /\ \E r \in ConnectResults :
        IF r = "ok"
        THEN /\ cameraConnected' = TRUE
             /\ pc' = "robot_connect"
             /\ UNCHANGED abortReason
        ELSE /\ pc' = "aborted"
             /\ abortReason' = "camera.connect"
             /\ UNCHANGED cameraConnected
    /\ UNCHANGED <<sessionVars, gridVars, collectVars, optimVars,
                   robotConnected, log>>

\* A failed robot.connect() is swallowed and the session goes on.
RobotConnectSwallow ==
    /\ pc = "robot_connect"
    /\ \E r \in ConnectResults :
        /\ robotConnected' = (r = "ok")
        /\ pc' = "go_home"
    /\ UNCHANGED <<sessionVars, gridVars, collectVars, optimVars,
                   cameraConnected, log, abortReason>>

\* self.robot.connect()
RobotConnect ==
    /\ pc = "robot_connect"
    /\ \E r \in ConnectResults :
        IF r = "ok"
        THEN /\ robotConnected' = TRUE
             /\ pc' = "go_home"
             /\ UNCHANGED abortReason
        ELSE /\ pc' = "aborted"
             /\ abortReason' = "robot.connect"
             /\ UNCHANGED robotConnected
    /\ UNCHANGED <<sessionVars, gridVars, collectVars, optimVars,
                   cameraConnected, log>>

\* A call on the robot that only moves it.
RobotCall(at, op, next) ==
    /\ pc = at
    /\ log' = Append(log, Call(op, 0))
    /\ pc' = next
    /\ UNCHANGED <<sessionVars, gridVars, collectVars, optimVars,
                   cameraConnected, robotConnected, abortReason>>

\* self.robot.go_home()
GoHome == RobotCall("go_home", "go_home", "open_gripper")

\* self.robot.open_gripper()
OpenGripper == RobotCall("open_gripper", "open_gripper", "move_joints")

\* self.robot.move_joints([...])
MoveJoints == RobotCall("move_joints", "move_joints", "generate_grid")

\* calib_grid_pts = self._generate_grid(), and the loop's first iteration
GenerateGridCall ==
    /\ pc = "generate_grid"
    /\ calib_grid_pts' = GenerateGrid(workspace_limits, calib_grid_step)
    /\ gridCalls' = gridCalls + 1
    /\ idx' = 1
    /\ pc' = IF Len(calib_grid_pts') >= 1 THEN "move_to" ELSE "go_home_end"
    /\ UNCHANGED <<sessionVars, collectVars, optimVars, outcomes,
                   cameraConnected, robotConnected, log, abortReason>>

\* A step of the loop that only calls a collaborator.
LoopCall(at, op, next) ==
    /\ pc = at
    /\ log' = Append(log, Call(op, idx))
    /\ pc' = next
    /\ UNCHANGED <<sessionVars, gridVars, collectVars, optimVars,
                   cameraConnected, robotConnected, abortReason>>

\* The frame is taken right after the move, without the settle delay.
MoveToNoSleep == LoopCall("move_to", "move_to", "get_image_bundle")

\* self.robot.move_to(pose)
MoveTo == LoopCall("move_to", "move_to", "sleep")

\* time.sleep(1)
Sleep == LoopCall("sleep", "sleep", "get_image_bundle")

\* image_bundle = self.camera.get_image_bundle(): the frame, given by what
\* the detector and the depth image will yield from it
GetImageBundle ==
    /\ pc = "get_image_bundle"
    /\ \E o \in Outcomes : outcomes' = Append(outcomes, o)
    /\ log' = Append(log, Call("get_image_bundle", idx))
    /\ pc' = "find_checkerboard"
    /\ UNCHANGED <<sessionVars, collectVars, optimVars, calib_grid_pts,
                   gridCalls, idx, cameraConnected, robotConnected,
                   abortReason>>

\* findChessboardCorners and the rest of the loop body, then the next
\* iteration or the loop's end
FindCheckerboard ==
    /\ pc = "find_checkerboard"
    /\ LET L == CollectSample(Lists, calib_grid_pts[idx], outcomes[idx],
                              intrinsics,
                              GridDen(workspace_limits, calib_grid_step))
       IN  /\ measured_pts' = L.m
           /\ observed_pts' = L.x
           /\ observed_pix' = L.p
    /\ idx' = idx + 1
    /\ pc' = IF idx < Len(calib_grid_pts) THEN "move_to" ELSE "go_home_end"
    /\ UNCHANGED <<sessionVars, optimVars, calib_grid_pts, gridCalls,
                   outcomes, cameraConnected, robotConnected, log,
                   abortReason>>

\* self.robot.go_home() after the loop
GoHomeEnd == RobotCall("go_home_end", "go_home", "to_arrays")

\* np.asarray of the three lists; world2camera = np.eye(4)
ToArrays ==
    /\ pc = "to_arrays"
    /\ world2camera' = Eye4
    /\ pc' = "minimize"
    /\ UNCHANGED <<sessionVars, gridVars, collectVars, nEvals, evaluated,
                   lastCall, optim_result, camera_depth_offset, saved,
                   cameraConnected, robotConnected, log, abortReason>>

-----------------------------------------------------------------------------
(* Optimizing and persisting *)

\* The objective scales the stored depths in place.
EvalStepInPlace(z_scale, U, Vt) ==
    /\ lastCall' = << [z_scale |-> z_scale] @@
                      RigidTransformError(measured_pts, observed_pts,
                                          observed_pix, z_scale, intrinsics,
                                          U, Vt) >>
    /\ nEvals' = nEvals + 1
    /\ observed_pts' = [i \in 1..Len(observed_pts) |->
                           <<observed_pts[i][1], observed_pts[i][2],
                             observed_pts[i][3] * z_scale>>]
    /\ UNCHANGED <<measured_pts, observed_pix>>

\* One completed call self._get_rigid_transform_error(z_scale).
EvalStep(z_scale, U, Vt) ==
    /\ lastCall' = << [z_scale |-> z_scale] @@
                      RigidTransformError(measured_pts, observed_pts,
                                          observed_pix, z_scale, intrinsics,
                                          U, Vt) >>
    /\ nEvals' = nEvals + 1
    /\ UNCHANGED collectVars

\* optimize.minimize(..., method='Nelder-Mead') evaluates the objective: at
\* z_scale_init first, then at further trial values.  With no sample,
\* observed_pts is a 1-D empty array and observed_pts[:, 2:] raises.
ObjectiveEval ==
    /\ pc = "minimize"
    /\ nEvals <= MaxEvals
    /\ IF Len(measured_pts) = 0
       THEN /\ pc' = "aborted"
            /\ abortReason' = "IndexError"
            /\ UNCHANGED <<collectVars, nEvals, evaluated, lastCall>>
       ELSE /\ \E z \in (IF nEvals = 0 THEN {ZScaleInit} ELSE ZScales),
                  U \in OrthSample, Vt \in OrthSample :
                /\ EvalStep(z, U, Vt)
                /\ evaluated' = evaluated \cup {z}
            /\ UNCHANGED <<pc, abortReason>>
    /\ UNCHANGED <<sessionVars, gridVars, world2camera, optim_result,
                   camera_depth_offset, saved, cameraConnected,
                   robotConnected, log>>

\* optimize.minimize returns: x is one of the points evaluated, success is
\* the minimizer's convergence flag; the objective's frame is gone.
\* camera_depth_offset = optim_result.x
MinimizeReturn ==
    /\ pc = "minimize"
    /\ nEvals >= 1
    /\ \E x \in evaluated, ok \in BOOLEAN :
        /\ optim_result' = << [x |-> <<x>>, success |-> ok] >>
        /\ camera_depth_offset' = <<x>>
    /\ evaluated' = {}
    /\ lastCall' = <<>>
    /\ pc' = "save_depth_scale"
    /\ UNCHANGED <<sessionVars, gridVars, collectVars, world2camera, nEvals,
                   saved, cameraConnected, robotConnected, log, abortReason>>

File(name, data) == [file |-> name, data |-> data]

\* np.savetxt('saved_data/camera_depth_scale.txt', camera_depth_offset)
SaveDepthScale ==
    /\ pc = "save_depth_scale"
    /\ saved' = Append(saved, File("camera_depth_scale", camera_depth_offset))
    /\ pc' = "final_eval"
    /\ UNCHANGED <<sessionVars, gridVars, collectVars, world2camera, nEvals,
                   evaluated, lastCall, optim_result,
                   camera_depth_offset, cameraConnected, robotConnected, log,
                   abortReason>>

\* self._get_rigid_transform_error(camera_depth_offset): the value returned
\* is dropped, and the call's world2camera is its own local
FinalEval ==
    /\ pc = "final_eval"
    /\ \E U \in OrthSample, Vt \in OrthSample :
        EvalStep(camera_depth_offset[1], U, Vt)
    /\ pc' = "save_pose"
    /\ UNCHANGED <<sessionVars, gridVars, world2camera, evaluated,
                   optim_result, camera_depth_offset, saved, cameraConnected,
                   robotConnected, log, abortReason>>

\* camera_pose = np.linalg.inv(world2camera); np.savetxt(camera_pose.txt)
SavePose ==
    /\ pc = "save_pose"
    /\ saved' = Append(saved, File("camera_pose", Inv4(world2camera)))
    /\ pc' = "save_points"
    /\ UNCHANGED <<sessionVars, gridVars, collectVars, world2camera, nEvals,
                   evaluated, lastCall, optim_result,
                   camera_depth_offset, cameraConnected, robotConnected, log,
                   abortReason>>

\* np.savetxt of measured_pts, observed_pts, observed_pix
SavePoints ==
    /\ pc = "save_points"
    /\ saved' = saved \o << File("measured_pts", measured_pts),
                            File("observed_pts", observed_pts),
                            File("observed_pix", observed_pix) >>
    /\ pc' = "done"
    /\ UNCHANGED <<sessionVars, gridVars, collectVars, world2camera, nEvals,
                   evaluated, lastCall, optim_result,
                   camera_depth_offset, cameraConnected, robotConnected, log,
                   abortReason>>

Next ==
    \/ CameraConnect
    \/ RobotConnect
    \/ GoHome
    \/ OpenGripper
    \/ MoveJoints
    \/ GenerateGridCall
    \/ MoveTo
    \/ Sleep
    \/ GetImageBundle
    \/ FindCheckerboard
    \/ GoHomeEnd
    \/ ToArrays
    \/ ObjectiveEval
    \/ MinimizeReturn
    \/ SaveDepthScale
    \/ FinalEval
    \/ SavePose
    \/ SavePoints

Spec == Init /\ [][Next]_vars

-----------------------------------------------------------------------------
(* _generate_grid on its own, over workspaces and steps *)

\* self.workspace_limits as the constructor sets it, in mm
DefaultLimits == <<<<300, 748>>, <<50, 400>>, <<-200, -100>>>>

GridSpans == { 25 * k : k \in 0..MaxSpanK }

GridSteps == { 25 * k : k \in 1..MaxStepK }

GridInputs ==
    { [limits |-> <<<<300, 300 + sx>>, <<50, 50 + sy>>, <<-200, -200 + sz>>>>,
       step |-> st] : sx \in GridSpans, sy \in GridSpans, sz \in GridSpans,
                      st \in GridSteps }
    \cup { [limits |-> DefaultLimits, step |-> CalibGridStep] }

InitGrid ==
    /\ pc = "grid"
    /\ \E in \in GridInputs :
        /\ workspace_limits = in.limits
        /\ calib_grid_step = in.step
    /\ intrinsics \in IntrinsicsSet
    /\ rt = None
    /\ InitCommon

\* calib_grid_pts = self._generate_grid()
GridGenerate ==
    /\ pc = "grid"
    /\ gridCalls < MaxGridCalls
    /\ calib_grid_pts' = GenerateGrid(workspace_limits, calib_grid_step)
    /\ gridCalls' = gridCalls + 1
    /\ UNCHANGED <<pc, sessionVars, collectVars, optimVars, idx, outcomes,
                   cameraConnected, robotConnected, log, abortReason>>

NextGrid == GridGenerate

SpecGrid == InitGrid /\ [][NextGrid]_vars

-----------------------------------------------------------------------------
(* _get_rigid_transform on its own, over point sets and SVD factors *)

RtPoints == { <<c, 0, MaxCoord - c>> : c \in 0..MaxCoord }

\* Point sets A, B of equal length: single points, and one triple.
RtPointSets ==
    { [A |-> <<p>>, B |-> <<q>>] : p \in RtPoints, q \in RtPoints }
    \cup { [A |-> <<<<0, 0, 0>>, <<1, 0, 0>>, <<0, 2, 0>>>>,
            B |-> <<<<1, 1, 1>>, <<1, 2, 1>>, <<3, 1, 1>>>>] }

InitRT ==
    /\ pc = "rt"
    /\ \E ab \in RtPointSets, U \in Orth, Vt \in Orth :
        rt = [A |-> ab.A, B |-> ab.B, U |-> U, Vt |-> Vt, out |-> <<>>]
    /\ workspace_limits \in {DefaultLimits}
    /\ calib_grid_step = CalibGridStep
    /\ intrinsics \in IntrinsicsSet
    /\ InitCommon

\* R, t = self._get_rigid_transform(A, B)
RtCall ==
    /\ pc = "rt"
    /\ rt.out = <<>>
    /\ rt' = [rt EXCEPT !.out = <<GetRigidTransform(rt.A, rt.B, rt.U, rt.Vt)>>]
    /\ UNCHANGED <<pc, workspace_limits, calib_grid_step, intrinsics,
                   gridVars, collectVars, optimVars, cameraConnected,
                   robotConnected, log, abortReason>>

NextRT == RtCall

SpecRT == InitRT /\ [][NextRT]_vars

-----------------------------------------------------------------------------
(* Properties of the collecting loop *)

\* Grid points whose loop body has run to its end.
Processed == IF idx = 0 THEN 0 ELSE idx - 1

\* A frame that yields a sample: checkerboard found, depth not zero.
Retained(o) == o.found /\ o.z # 0

\* The visits that yielded a sample, in order.
RetainedVisits ==
    LET Test(i) == Retained(outcomes[i])
    IN  SelectSeq([i \in 1..Processed |-> i], Test)

UnitDen == GridDen(workspace_limits, calib_grid_step) * FocalDen(intrinsics)

AfterLoop ==
    pc \in {"go_home_end", "to_arrays", "minimize", "save_depth_scale",
            "final_eval", "save_pose", "save_points", "done"}
    \/ (pc = "aborted" /\ abortReason = "IndexError")

\* C1: after any run of the collecting loop, over any per-grid-point
\* outcomes (not found / found with depth 0 / found with nonzero depth), no
\* entry of the correspondence set has observed depth 0, and only the grid
\* points with a found checkerboard of nonzero depth add an entry, one to
\* each of the three lists: a failed detection adds none.
C1_NoZeroDepthSample ==
    /\ \A k \in 1..Len(observed_pts) : observed_pts[k][3] # 0
    /\ Len(measured_pts) = Len(RetainedVisits)
    /\ Len(observed_pts) = Len(RetainedVisits)
    /\ Len(observed_pix) = Len(RetainedVisits)

\* A finished loop that met all three outcomes.
C1_Witness ==
    /\ AfterLoop
    /\ \E i \in 1..Len(outcomes) : ~outcomes[i].found
    /\ \E i \in 1..Len(outcomes) : outcomes[i].found /\ outcomes[i].z = 0
    /\ Len(observed_pts) >= 1

\* C9 (state part): the three lists have the same length and entry k of
\* each comes from the same grid visit: the measured point is that visit's
\* tool position plus the fixed checkerboard offset, the pixel and the depth
\* are that visit's frame's.
C9_Aligned ==
    /\ Len(measured_pts) = Len(observed_pts)
    /\ Len(observed_pix) = Len(observed_pts)
    /\ Len(measured_pts) = Len(RetainedVisits)
    /\ \A k \in 1..Len(RetainedVisits) :
        LET v == RetainedVisits[k]
        IN  /\ measured_pts[k] =
                  VecAdd(VecScale(calib_grid_pts[v], FocalDen(intrinsics)),
                         VecScale(checkerboard_offset_from_tool, UnitDen))
            /\ observed_pix[k] = outcomes[v].pix
            /\ observed_pts[k][3] = outcomes[v].z * UnitDen

\* C9: at every grid-point boundary and at every later step the three lists
\* are index-aligned, of equal length, and once collection has ended no
\* objective evaluation and no persisting step changes them.
C9_AlignedAndFrozen ==
    /\ []C9_Aligned
    /\ [][AfterLoop => UNCHANGED collectVars]_vars

\* A finished session with two samples or more and two objective calls or
\* more, one of them at a depth scale other than 1.
C9_Witness ==
    /\ pc = "done"
    /\ Len(measured_pts) >= 2
    /\ nEvals >= 2
    /\ camera_depth_offset # <<1>>

-----------------------------------------------------------------------------
(* Properties of the order of calls *)

MotionOps == {"go_home", "open_gripper", "move_joints", "move_to"}

Motions == { q \in 1..Len(log) : log[q].op \in MotionOps }

\* C5: no robot motion command is issued before camera.connect() and
\* robot.connect() have both returned; if either fails the session aborts
\* with no motion command issued and no sample collected.
C5_NoMotionBeforeConnect ==
    /\ Motions # {} => cameraConnected /\ robotConnected
    /\ abortReason \in {"camera.connect", "robot.connect"} =>
        /\ pc = "aborted"
        /\ Motions = {}
        /\ outcomes = <<>>
        /\ measured_pts = <<>> /\ observed_pts = <<>> /\ observed_pix = <<>>

\* The camera connected, the robot did not: the session is aborted.
C5_Witness ==
    /\ pc = "aborted"
    /\ abortReason = "robot.connect"
    /\ cameraConnected
    /\ ~robotConnected

\* Positions in the log of the calls op made for grid point i.
At(op, i) == { q \in 1..Len(log) : log[q] = Call(op, i) }

\* C6: the loop visits every pose of the grid exactly once, in grid order;
\* the frame of a pose is taken after that pose's move_to has returned and
\* the settle delay has passed, and before the next pose's move_to.
C6_MoveSettleCapture ==
    LET moves == SelectSeq(log, LAMBDA e : e.op = "move_to")
    IN  /\ \A k \in 1..Len(moves) : moves[k].i = k
        /\ Len(moves) <= Len(calib_grid_pts)
        /\ AfterLoop => Len(moves) = Len(calib_grid_pts)
        /\ \A i \in 1..Len(calib_grid_pts) :
            /\ Cardinality(At("get_image_bundle", i)) <= 1
            /\ i <= Processed => Cardinality(At("get_image_bundle", i)) = 1
            /\ \A c \in At("get_image_bundle", i) :
                /\ \E m \in At("move_to", i), w \in At("sleep", i) :
                       m < w /\ w < c
                /\ \A m \in At("move_to", i + 1) : c < m

\* A finished loop over a grid of three poses.
C6_Witness == AfterLoop /\ Len(calib_grid_pts) = 3 /\ Processed = 3

-----------------------------------------------------------------------------
(* Properties of optimizing and persisting *)

Persisted(name) == { k \in 1..Len(saved) : saved[k].file = name }

\* C2: the camera pose written to camera_pose.txt is the inverse of the
\* transform [R t; 0 1] that the final run of the estimator, on the measured
\* points and the points back-projected with the optimal zScale, produced.
C2_PoseFromFinalEstimate ==
    \A k \in Persisted("camera_pose") :
        /\ lastCall # <<>>
        /\ lastCall[1].z_scale = camera_depth_offset[1]
        /\ saved[k].data = Inv4(lastCall[1].world2camera)

\* C3: if the loop ends with fewer than 3 retained samples, run() halts with
\* a fatal insufficient-samples error before the optimizer is invoked: the
\* objective is never evaluated and nothing is persisted.
C3_InsufficientSamplesFatal ==
    (AfterLoop /\ Len(measured_pts) < 3) =>
        /\ pc \notin {"save_depth_scale", "final_eval", "save_pose",
                      "save_points", "done"}
        /\ nEvals = 0
        /\ saved = <<>>
        /\ pc = "aborted" => abortReason = "insufficient-samples"

\* C4: if the minimization does not converge, run() halts: no depth scale is
\* persisted or used to build the camera pose, and the persisting step is
\* never reached with a non-converged result.
C4_NonConvergenceFatal ==
    (optim_result # <<>> /\ ~optim_result[1].success) =>
        /\ saved = <<>>
        /\ pc \notin {"final_eval", "save_pose", "save_points", "done"}

-----------------------------------------------------------------------------
(* Properties of _generate_grid *)

\* The values the grid takes on axis a.
AxisValues(a) == { calib_grid_pts[f][a] : f \in 1..Len(calib_grid_pts) }

Lo(a) == workspace_limits[a][1]

Hi(a) == workspace_limits[a][2]

\* 1 + floor((max - min) / step)
Count(a) == 1 + ((Hi(a) - Lo(a)) \div calib_grid_step)

GridD == GridDen(workspace_limits, calib_grid_step)

\* C7 (state part): the per-axis point count is 1 + floor((max-min)/step),
\* the length is the product of the three counts, and every combination of
\* per-axis values appears exactly once.
C7_Shape ==
    gridCalls >= 1 =>
        /\ \A a \in 1..3 : Cardinality(AxisValues(a)) = Count(a)
        /\ Len(calib_grid_pts) = Count(1) * Count(2) * Count(3)
        /\ \A x \in AxisValues(1), y \in AxisValues(2), z \in AxisValues(3) :
            Cardinality({ f \in 1..Len(calib_grid_pts) :
                            calib_grid_pts[f] = <<x, y, z>> }) = 1

\* C7: for bounds with min <= max per axis and a positive step, the grid has
\* the shape above, and every further call with the same bounds and step
\* returns the same ordered sequence.
C7_GridShapeAndDeterminism ==
    /\ []C7_Shape
    /\ [][gridCalls >= 1 => calib_grid_pts' = calib_grid_pts]_vars

\* The grid generated twice, with two points or more on every axis and a
\* span that is no multiple of the step.
C7_Witness ==
    /\ pc = "grid"
    /\ gridCalls >= 2
    /\ \A a \in 1..3 : Count(a) >= 2
    /\ \E a \in 1..3 : (Hi(a) - Lo(a)) % calib_grid_step # 0

\* C8 as stated: on each axis the first point is min and adjacent points are
\* exactly the grid step apart, so the last point is
\* min + floor((max-min)/step)*step, short of max when the span is no
\* multiple of the step.
C8_StepSpacing ==
    gridCalls >= 1 =>
        \A a \in 1..3 :
            AxisValues(a) =
                { (Lo(a) + m * calib_grid_step) * GridD : m \in 0..(Count(a) - 1) }

\* C8 as amended: on each axis the first point is min; with one point that
\* is all; with two or more the last point is max and adjacent points are
\* (max-min)/(count-1) apart, which is the grid step exactly when the span
\* is a multiple of the step and more than the step otherwise.
C8_EndpointSpacing ==
    gridCalls >= 1 =>
        \A a \in 1..3 :
            LET n == Count(a)
                span == Hi(a) - Lo(a)
            IN  /\ Lo(a) * GridD \in AxisValues(a)
                /\ \A v \in AxisValues(a) : v >= Lo(a) * GridD
                /\ n = 1 => AxisValues(a) = { Lo(a) * GridD }
                /\ n >= 2 =>
                    /\ Hi(a) * GridD \in AxisValues(a)
                    /\ \A v \in AxisValues(a) : v <= Hi(a) * GridD
                    /\ \A v \in AxisValues(a) :
                        v < Hi(a) * GridD =>
                            /\ (v * (n - 1) + span * GridD) % (n - 1) = 0
                            /\ (v * (n - 1) + span * GridD) \div (n - 1)
                                   \in AxisValues(a)
                    /\ (span % calib_grid_step = 0) <=>
                           (span = (n - 1) * calib_grid_step)
                    /\ span >= (n - 1) * calib_grid_step

\* The constructor's workspace generated: x spans 448 mm on a 50 mm step.
C8_Witness ==
    /\ pc = "grid"
    /\ gridCalls >= 1
    /\ workspace_limits = DefaultLimits
    /\ calib_grid_step = CalibGridStep
    /\ Count(1) = 9
    /\ 748 * GridD \in AxisValues(1)
    /\ (300 + 56) * GridD \in AxisValues(1)

-----------------------------------------------------------------------------
(* Properties of _get_rigid_transform *)

\* The candidate rotation V * Ut of the call.
Candidate == MatMul(Transpose(rt.Vt), Transpose(rt.U))

\* C10: the returned R has determinant +1, never -1: when the candidate
\* R = V*Ut has negative determinant, the third row of Vt is negated and R
\* recomputed, and the recomputed R is the one returned and the one t is
\* computed from.
C10_ProperRotation ==
    rt.out # <<>> =>
        LET R == rt.out[1].R
            VtNeg == <<rt.Vt[1], rt.Vt[2], VecScale(rt.Vt[3], -1)>>
        IN  /\ Det3(R) = 1
            /\ Det3(Candidate) >= 0 => R = Candidate
            /\ Det3(Candidate) < 0 =>
                   R = MatMul(Transpose(VtNeg), Transpose(rt.U))
            /\ rt.out[1].t =
                   VecAdd(MatVec(MatNeg(R), SumVecs(rt.A)), SumVecs(rt.B))

\* A call whose candidate was a reflection, on three points.
C10_Witness ==
    /\ pc = "rt"
    /\ rt.out # <<>>
    /\ Det3(Candidate) < 0
    /\ Len(rt.A) = 3

=============================================================================
